---- MODULE Spec2Model ----
(***************************************************************************)
(* The battlesnake turn-resolution engine, src/lib/game/engine.ts:         *)
(* GameEngine's state, initializeGame, nextTurn, spawnFood and             *)
(* addRandomFood, as a state machine.                                      *)
(*                                                                         *)
(* A Point is a record [x, y]; an undefined value of the source            *)
(* (eliminationReason, winnerId, latency, a move that find() does not      *)
(* return) is the string "undefined".  TLA+ sequences start at 1, so the   *)
(* source's index i is i + 1 here and findIndex's -1 is 0.                 *)
(***************************************************************************)
EXTENDS Integers, Sequences, FiniteSets, TLC

\* ---------------------------------------------------------------- bounds
\* The games explored.  Each is an engine constructed with its own GameConfig,
\* a number of players handed to initializeGame and a number of turns:
\*   small: a SmallSide x SmallSide board with the default foodSpawnChance,
\*          up to TrioPlayers players, SmallTurns turns, driven with move
\*          lists that may carry latency samples and malformed directions;
\*   trio:  a TrioWidth x Height board, TrioPlayers players, TrioTurns turns,
\*          the default initialHealth of 100;
\*   duel:  a DuelWidth x Height board, DuelPlayers players, DuelTurns turns,
\*          initialHealth DuelHealth (InitialHealth in the small game).
\*   pair:  a TrioWidth x Height board, DuelPlayers players, PairTurns turns,
\*          initialHealth InitialHealth.
\*   start: a StartSide x StartSide board with the default foodSpawnChance,
\*          StartPlayers players, StartTurns turns (initializeGame only);
\*   loop:  a DuelWidth x Height board, DuelPlayers players, LoopTurns turns,
\*          initialHealth InitialHealth; the game the Game component plays
\*          (LoopSpec);
\*   live:  a SmallSide x SmallSide board, up to TrioPlayers players,
\*          initialHealth InitialHealth, LiveTurns turns: more turns than any
\*          game on it lasts (LiveSpec);
\*   rematch: a SmallSide x SmallSide board, DuelPlayers players,
\*          initialHealth DuelHealth, RematchTurns turns in each game; the
\*          games the Game component plays when Restart is pressed at most
\*          MaxRestarts times (RematchSpec);
\*   knot:  a KnotSide x KnotSide board, on which positions[0..2] are one
\*          cell, TrioPlayers players, KnotTurns turns; explored on its own
\*          (KnotSpec).
\* The trio, duel, pair and knot engines are constructed with foodSpawnChance 0 and
\* driven with move lists that carry no latency.
SmallSide == 2
SmallTurns == 2
TrioWidth == 4
TrioPlayers == 3
TrioTurns == 1
DuelWidth == 5
DuelPlayers == 2
DuelTurns == 3
PairTurns == 1
StartSide == 4
StartPlayers == 4
StartTurns == 0
LoopTurns == 2
LiveTurns == 3
RematchTurns == 1
KnotSide == 3
KnotTurns == 2
Height == 2
MinFood == 1
InitialHealth == 20
DuelHealth == 30
MaxLatencyLen == 1
\* The snakes whose model updateSnakeModel has changed, at most.
MaxRelabels == 1
\* The presses of Restart, at most.
MaxRestarts == 1

\* ------------------------------------------------------ program constants
\* DEFAULT_CONFIG.foodSpawnChance, in percent.
FoodSpawnChance == 15
\* health = 100 on eating; health - 10 per turn; addRandomFood's attempts.
FullHealth == 100
HealthLoss == 10
MaxAttempts == 50

GameConfig(w, h, health, chance) ==
  [width |-> w, height |-> h, initialHealth |-> health,
   foodSpawnChance |-> chance, minFood |-> MinFood]

Games ==
  {[config |-> GameConfig(SmallSide, SmallSide, InitialHealth, FoodSpawnChance),
    players |-> 0..TrioPlayers, turns |-> SmallTurns, samples |-> TRUE,
    malformed |-> TRUE],
   [config |-> GameConfig(TrioWidth, Height, FullHealth, 0),
    players |-> {TrioPlayers}, turns |-> TrioTurns, samples |-> FALSE,
    malformed |-> FALSE],
   [config |-> GameConfig(DuelWidth, Height, DuelHealth, 0),
    players |-> {DuelPlayers}, turns |-> DuelTurns, samples |-> FALSE,
    malformed |-> FALSE],
   [config |-> GameConfig(TrioWidth, Height, InitialHealth, 0),
    players |-> {DuelPlayers}, turns |-> PairTurns, samples |-> FALSE,
    malformed |-> FALSE],
   [config |-> GameConfig(StartSide, StartSide, InitialHealth, FoodSpawnChance),
    players |-> {StartPlayers}, turns |-> StartTurns, samples |-> FALSE,
    malformed |-> FALSE]}

Loop ==
  [config |-> GameConfig(DuelWidth, Height, InitialHealth, 0),
   players |-> {DuelPlayers}, turns |-> LoopTurns, samples |-> FALSE,
   malformed |-> FALSE]

Live ==
  [config |-> GameConfig(SmallSide, SmallSide, InitialHealth, 0),
   players |-> 0..TrioPlayers, turns |-> LiveTurns, samples |-> FALSE,
   malformed |-> FALSE]

Rematch ==
  [config |-> GameConfig(SmallSide, SmallSide, DuelHealth, 0),
   players |-> {DuelPlayers}, turns |-> RematchTurns, samples |-> FALSE,
   malformed |-> FALSE]

Knot ==
  [config |-> GameConfig(KnotSide, KnotSide, FullHealth, 0),
   players |-> {TrioPlayers}, turns |-> KnotTurns, samples |-> FALSE,
   malformed |-> FALSE]

\* The explored game of an engine constructed with cfg.
Game(cfg) == CHOOSE g \in Games \cup {Loop, Live, Rematch, Knot} : g.config = cfg

Undefined == "undefined"

\* The value undefined where the source expects a Point: a record without
\* the fields x and y.
UndefinedPoint == [undefined |-> TRUE]

Directions == {"up", "down", "left", "right"}

SNAKE_COLORS == <<"#FFAF00", "#00AD3A", "#9440D5", "#006FFE", "#F12B83", "#00A996">>

AVAILABLE_MODELS ==
  <<"moonshotai/kimi-k2-0905", "alibaba/qwen-3-32b",
    "openai/gpt-oss-safeguard-20b", "google/gemini-2.0-flash-lite">>

\* The players getRandomModels(count, AVAILABLE_MODELS) hands to initializeGame.
getRandomModels(count) ==
  [i \in 1..count |-> [id |-> "snake-" \o ToString(i),
                       model |-> AVAILABLE_MODELS[((i - 1) % 4) + 1]]]

VARIABLES
  config,      \* this.config
  turn,        \* state.turn
  snakes,      \* state.snakes
  food,        \* state.food
  width,       \* state.width
  height,      \* state.height
  isGameOver,  \* state.isGameOver
  winnerId,    \* state.winnerId
  pc,          \* where the engine's caller is: "constructed", "ready",
               \* "spawnFood" (control never leaves spawnFood's while loop) or
               \* "TypeError" (nextTurn left by an exception)
  call,        \* the last call made on the engine: its name, its arguments,
               \* the engine state it was made on and the snapshot held then
  gameState,   \* the snapshot the engine's user holds: <<>> (null) or one
               \* GameState object that getState returned
  isRunning,         \* Game.tsx: the Start/Pause state
  isProcessingTurn,  \* Game.tsx: a runTurn is under way
  requests,    \* Game.tsx: the move promises of the last runTurn, one for
               \* each snake alive in gameState, in that order
  turnsInFlight,  \* Game.tsx: the runTurn calls that are past their guard and
               \* have not reached setIsProcessingTurn(false), each as the
               \* gameState its closure holds
  posted,      \* Game.tsx: the bodies of the POST requests reportResults has
               \* sent to /api/leaderboard, oldest first
  restarts     \* Game.tsx: how many times Restart has replaced engine.current

engine == <<turn, snakes, food, width, height, isGameOver, winnerId>>
loop == <<isRunning, isProcessingTurn, requests, turnsInFlight, posted, restarts>>
vars == <<config, turn, snakes, food, width, height, isGameOver, winnerId, pc, call,
          gameState, isRunning, isProcessingTurn, requests, turnsInFlight, posted,
          restarts>>

\* ------------------------------------------------------------- helpers

calculateNextPointLeaping(current, direction) ==
  CASE direction = "up" -> [x |-> current.x, y |-> current.y - 1]
    [] direction = "down" -> [x |-> current.x, y |-> current.y + 1]
    [] direction = "left" -> [x |-> current.x - 1, y |-> current.y]
    [] direction = "right" -> [x |-> current.x + 2, y |-> current.y]
    [] OTHER -> UndefinedPoint

calculateNextPoint(current, direction) ==
  CASE direction = "up" -> [x |-> current.x, y |-> current.y - 1]
    [] direction = "down" -> [x |-> current.x, y |-> current.y + 1]
    [] direction = "left" -> [x |-> current.x - 1, y |-> current.y]
    [] direction = "right" -> [x |-> current.x + 1, y |-> current.y]
    [] OTHER -> UndefinedPoint

isPointInList(point, list) ==
  \E i \in DOMAIN list : list[i].x = point.x /\ list[i].y = point.y

\* list.findIndex((f) => f.x === p.x && f.y === p.y), 0 when there is none.
findIndex(list, p) ==
  IF isPointInList(p, list)
  THEN CHOOSE i \in DOMAIN list :
         /\ list[i].x = p.x /\ list[i].y = p.y
         /\ \A j \in 1..(i - 1) : ~(list[j].x = p.x /\ list[j].y = p.y)
  ELSE 0

\* moves.find((m) => m.snakeId === id): the first entry of that snake.
hasMove(moves, id) == \E i \in DOMAIN moves : moves[i].snakeId = id

findMove(moves, id) ==
  moves[CHOOSE i \in DOMAIN moves :
          /\ moves[i].snakeId = id
          /\ \A j \in 1..(i - 1) : moves[j].snakeId # id]

isAlive(s) == s.status = "alive"

aliveSnakes(S) == SelectSeq(S, isAlive)

\* -------------------------------------------------- nextTurn, steps 2 - 3

\* nextHeads.get(snake.id), for a snake with a move.
nextHead(s, moves) ==
  calculateNextPoint(s.body[1], findMove(moves, s.id).direction)

\* nextTurn leaves by a TypeError: an alive snake's nextHeads entry is the
\* undefined that calculateNextPoint returns for a direction outside its
\* switch, and next.x (with food on the board) or head.x reads a property of it.
throws(S, moves) ==
  \E i \in DOMAIN S :
    /\ isAlive(S[i])
    /\ hasMove(moves, S[i].id)
    /\ nextHead(S[i], moves) = UndefinedPoint

\* eatsFood.get(snake.id): against the food list of the start of the turn.
eatsFood(s, F, moves) == findIndex(F, nextHead(s, moves)) # 0

nextBodyNeverGrows(s, F, moves) ==
  LET newBody == <<nextHead(s, moves)>> \o s.body
  IN  SubSeq(newBody, 1, Len(newBody) - 1)

nextBodyKeepingTheTail(s, F, moves) == <<nextHead(s, moves)>> \o s.body

\* nextBodies.get(snake.id).
nextBody(s, F, moves) ==
  LET newBody == <<nextHead(s, moves)>> \o s.body
  IN  IF eatsFood(s, F, moves)
      THEN newBody
      ELSE SubSeq(newBody, 1, Len(newBody) - 1)

\* ----------------------------------------------------- nextTurn, step 4

outOfBoundsOffByOne(head, w, h) ==
  head.x < 0 \/ head.x > w \/ head.y < 0 \/ head.y > h

outOfBounds(head, w, h) ==
  head.x < 0 \/ head.x >= w \/ head.y < 0 \/ head.y >= h

hitsOtherBodyOrIdle(s, S, F, moves) ==
  \E i \in DOMAIN S :
    /\ isAlive(S[i])
    /\ S[i].id # s.id
    /\ isPointInList(nextHead(s, moves),
                     IF hasMove(moves, S[i].id)
                     THEN Tail(nextBody(S[i], F, moves))
                     ELSE S[i].body)

hitsOtherBodyInArrayOrder(s, S, F, moves) ==
  \E i, k \in DOMAIN S :
    /\ S[k].id = s.id
    /\ isAlive(S[i])
    /\ hasMove(moves, S[i].id)
    /\ \/ i < k /\ isPointInList(nextHead(s, moves), Tail(nextBody(S[i], F, moves)))
       \/ i > k /\ isPointInList(nextHead(s, moves), S[i].body)

hitsOtherBody(s, S, F, moves) ==
  \E i \in DOMAIN S :
    /\ isAlive(S[i])
    /\ S[i].id # s.id
    /\ hasMove(moves, S[i].id)
    /\ isPointInList(nextHead(s, moves), Tail(nextBody(S[i], F, moves)))

step4ReasonIgnoringOthers(s, S, F, moves, w, h) ==
  IF ~hasMove(moves, s.id) THEN "timeout"
  ELSE IF outOfBounds(nextHead(s, moves), w, h) THEN "out-of-bounds"
  ELSE IF isPointInList(nextHead(s, moves), Tail(nextBody(s, F, moves)))
       THEN "self-collision"
  ELSE "none"

step4ReasonCountingHead(s, S, F, moves, w, h) ==
  IF ~hasMove(moves, s.id) THEN "timeout"
  ELSE IF outOfBounds(nextHead(s, moves), w, h) THEN "out-of-bounds"
  ELSE IF isPointInList(nextHead(s, moves), nextBody(s, F, moves))
       THEN "self-collision"
  ELSE IF hitsOtherBody(s, S, F, moves) THEN "body-collision"
  ELSE "none"

\* The reason the first elimination loop records for an alive snake, "none"
\* when it records none.
step4Reason(s, S, F, moves, w, h) ==
  IF ~hasMove(moves, s.id) THEN "timeout"
  ELSE IF outOfBounds(nextHead(s, moves), w, h) THEN "out-of-bounds"
  ELSE IF isPointInList(nextHead(s, moves), Tail(nextBody(s, F, moves)))
       THEN "self-collision"
  ELSE IF hitsOtherBody(s, S, F, moves) THEN "body-collision"
  ELSE "none"

\* ----------------------------------------------------- nextTurn, step 5

\* posToSnakes.get(key of s's head): the alive snakes the first loop did not
\* eliminate whose projected head is s's projected head.
posToSnakes(s, S, F, moves, w, h) ==
  {i \in DOMAIN S :
     /\ isAlive(S[i])
     /\ step4Reason(S[i], S, F, moves, w, h) = "none"
     /\ nextHead(S[i], moves) = nextHead(s, moves)}

SetMax(T) == CHOOSE m \in T : \A n \in T : n <= m

headToHeadTieSurvives(s, S, F, moves, w, h) ==
  LET ids == posToSnakes(s, S, F, moves, w, h)
      maxLength == SetMax({Len(S[i].body) : i \in ids})
  IN  Cardinality(ids) > 1 /\ Len(s.body) < maxLength

headToHeadAllLose(s, S, F, moves, w, h) ==
  Cardinality(posToSnakes(s, S, F, moves, w, h)) > 1

headToHeadLosesInPairsOnly(s, S, F, moves, w, h) ==
  LET ids == posToSnakes(s, S, F, moves, w, h)
      maxLength == SetMax({Len(S[i].body) : i \in ids})
      survivors == {i \in ids : Len(S[i].body) = maxLength}
  IN  /\ Cardinality(ids) = 2
      /\ \/ Len(s.body) < maxLength
         \/ Cardinality(survivors) > 1

headToHeadLoses(s, S, F, moves, w, h) ==
  LET ids == posToSnakes(s, S, F, moves, w, h)
      maxLength == SetMax({Len(S[i].body) : i \in ids})
      survivors == {i \in ids : Len(S[i].body) = maxLength}
  IN  /\ Cardinality(ids) > 1
      /\ \/ Len(s.body) < maxLength
         \/ Cardinality(survivors) > 1

\* eliminationReasons.get(snake.id) after both loops, "none" when the snake
\* is not in toEliminate.
eliminationReasons(s, S, F, moves, w, h) ==
  LET r == step4Reason(s, S, F, moves, w, h)
  IN  IF r # "none" THEN r
      ELSE IF headToHeadLoses(s, S, F, moves, w, h)
           THEN "head-to-head-collision"
      ELSE "none"

\* ----------------------------------------------------- nextTurn, step 6

newLatency(s, moves) ==
  IF hasMove(moves, s.id) /\ findMove(moves, s.id).latency # Undefined
  THEN Append(s.latency, findMove(moves, s.id).latency)
  ELSE s.latency

starvesBelowZero(health) == health < 0

starvesNever(health) == FALSE

\* if (health <= 0)
starves(health) == health <= 0

applySnakeCommittingTheFatalMove(s, S, F, moves, w, h) ==
  IF s.status = "eliminated"
  THEN [s EXCEPT !.latency = newLatency(s, moves)]
  ELSE LET reason == eliminationReasons(s, S, F, moves, w, h) IN
    IF reason # "none"
    THEN [s EXCEPT !.body = IF hasMove(moves, s.id) /\ reason # "out-of-bounds"
                             THEN nextBody(s, F, moves) ELSE s.body,
                   !.status = "eliminated",
                   !.eliminationReason = reason,
                   !.health = 0,
                   !.latency = newLatency(s, moves)]
    ELSE LET eats == eatsFood(s, F, moves)
             health == IF eats THEN FullHealth ELSE s.health - HealthLoss
             length == IF eats THEN s.length + 1 ELSE s.length
         IN  IF starves(health)
             THEN [s EXCEPT !.body = nextBody(s, F, moves),
                            !.status = "eliminated",
                            !.eliminationReason = "starvation",
                            !.health = 0,
                            !.length = length,
                            !.latency = newLatency(s, moves)]
             ELSE [s EXCEPT !.body = nextBody(s, F, moves),
                            !.health = health,
                            !.length = length,
                            !.latency = newLatency(s, moves)]

\* The callback of this.state.snakes.map(...).
applySnake(s, S, F, moves, w, h) ==
  IF s.status = "eliminated"
  THEN [s EXCEPT !.latency = newLatency(s, moves)]
  ELSE LET reason == eliminationReasons(s, S, F, moves, w, h) IN
    IF reason # "none"
    THEN [s EXCEPT !.status = "eliminated",
                   !.eliminationReason = reason,
                   !.health = 0,
                   !.latency = newLatency(s, moves)]
    ELSE LET eats == eatsFood(s, F, moves)
             health == IF eats THEN FullHealth ELSE s.health - HealthLoss
             length == IF eats THEN s.length + 1 ELSE s.length
         IN  IF starves(health)
             THEN [s EXCEPT !.body = nextBody(s, F, moves),
                            !.status = "eliminated",
                            !.eliminationReason = "starvation",
                            !.health = 0,
                            !.length = length,
                            !.latency = newLatency(s, moves)]
             ELSE [s EXCEPT !.body = nextBody(s, F, moves),
                            !.health = health,
                            !.length = length,
                            !.latency = newLatency(s, moves)]

mapSnakesWithoutCarry(S, F, moves, w, h) ==
  [i \in DOMAIN S |->
     applySnake([S[i] EXCEPT !.status = "alive"], S, F, moves, w, h)]

mapSnakes(S, F, moves, w, h) ==
  [i \in DOMAIN S |-> applySnake(S[i], S, F, moves, w, h)]

eatenFoodIndicesOfEveryMover(S, F, moves, w, h) ==
  {findIndex(F, nextHead(S[i], moves)) :
     i \in {j \in DOMAIN S :
              /\ isAlive(S[j])
              /\ hasMove(moves, S[j].id)
              /\ eatsFood(S[j], F, moves)}} \ {0}

\* eatenFoodIndices, as a set (the source removes duplicates before use).
eatenFoodIndices(S, F, moves, w, h) ==
  {findIndex(F, nextHead(S[i], moves)) :
     i \in {j \in DOMAIN S :
              /\ isAlive(S[j])
              /\ eliminationReasons(S[j], S, F, moves, w, h) = "none"
              /\ eatsFood(S[j], F, moves)}} \ {0}

spliceNothing(list, idxs) == list

\* The list after splice(idx, 1) for every index of idxs, highest first.
RECURSIVE spliceAll(_, _)
spliceAll(list, idxs) ==
  IF idxs = {} THEN list
  ELSE LET idx == SetMax(idxs)
       IN  spliceAll(SubSeq(list, 1, idx - 1) \o SubSeq(list, idx + 1, Len(list)),
                     idxs \ {idx})

\* The result of nextTurn's steps 1 - 8 on snakes S and food F, before spawnFood:
\* the mapped snakes and the food list with the eaten items spliced out.
resolve(S, F, moves, w, h) ==
  [snakes |-> mapSnakes(S, F, moves, w, h),
   food |-> spliceAll(F, eatenFoodIndices(S, F, moves, w, h))]

\* ------------------------------------------------------------ spawnFood

cells(w, h) == {[x |-> x, y |-> y] : x \in 0..(w - 1), y \in 0..(h - 1)}

vacantCellsIgnoringFood(S, F, w, h) ==
  {p \in cells(w, h) :
     ~\E i \in DOMAIN S : isAlive(S[i]) /\ isPointInList(p, S[i].body)}

\* The cells addRandomFood accepts: in no alive snake's body and not food.
vacantCells(S, F, w, h) ==
  {p \in cells(w, h) :
     /\ ~\E i \in DOMAIN S : isAlive(S[i]) /\ isPointInList(p, S[i].body)
     /\ ~isPointInList(p, F)}

\* addRandomFood from its attempts-th iteration on: every food list it can
\* leave, over all outcomes of Math.random().  A draw of a vacant cell pushes
\* it and returns; a draw of another cell (when there is one) goes round again.
RECURSIVE addRandomFoodFrom(_, _, _, _)
addRandomFoodFrom(attempts, F, vacant, allVacant) ==
  IF attempts >= MaxAttempts THEN {F}
  ELSE {Append(F, p) : p \in vacant}
         \cup (IF allVacant THEN {}
               ELSE addRandomFoodFrom(attempts + 1, F, vacant, allVacant))

addRandomFood(S, F, w, h) ==
  addRandomFoodFrom(0, F, vacantCells(S, F, w, h),
                    vacantCells(S, F, w, h) = cells(w, h))

\* while (food.length < minFood) addRandomFood(): the food lists the loop
\* can be left with, and whether it is left at all.  A call that gives up
\* changes nothing and the loop calls again; with no vacant cell every call
\* gives up and the loop never ends (returns = FALSE).
ifMinFood(S, F, w, h, minFood) ==
  IF Len(F) >= minFood THEN {[food |-> F, returns |-> TRUE]}
  ELSE {[food |-> G, returns |-> TRUE] : G \in addRandomFood(S, F, w, h)}

RECURSIVE whileMinFood(_, _, _, _, _)
whileMinFood(S, F, w, h, minFood) ==
  IF Len(F) >= minFood THEN {[food |-> F, returns |-> TRUE]}
  ELSE LET grown == addRandomFood(S, F, w, h) \ {F}
       IN  IF grown = {} THEN {[food |-> F, returns |-> FALSE]}
           ELSE UNION {whileMinFood(S, G, w, h, minFood) : G \in grown}

\* if (Math.random() < foodSpawnChance) addRandomFood(): taken or not.
extraFood(S, F, w, h, foodSpawnChance) ==
  {F} \cup (IF 0 < foodSpawnChance THEN addRandomFood(S, F, w, h) ELSE {})

spawnFood(S, F, w, h, cfg) ==
  UNION {IF r.returns
         THEN {[food |-> G, returns |-> TRUE] :
                 G \in extraFood(S, r.food, w, h, cfg.foodSpawnChance)}
         ELSE {r} : r \in whileMinFood(S, F, w, h, cfg.minFood)}

\* ------------------------------------------------------- initializeGame

positions(cfg) ==
  <<[x |-> 1, y |-> 1], [x |-> cfg.width - 2, y |-> 1],
    [x |-> 1, y |-> cfg.height - 2], [x |-> cfg.width - 2, y |-> cfg.height - 2]>>

newSnakeAtFullHealth(p, index, cfg) ==
  [id |-> p.id,
   name |-> "Snake " \o ToString(index + 1),
   model |-> p.model,
   body |-> <<positions(cfg)[(index % 4) + 1]>>,
   health |-> FullHealth,
   color |-> SNAKE_COLORS[(index % 6) + 1],
   status |-> "alive",
   eliminationReason |-> Undefined,
   length |-> 1,
   latency |-> <<>>]

\* The callback of players.map(...), index from 0.
newSnake(p, index, cfg) ==
  [id |-> p.id,
   name |-> "Snake " \o ToString(index + 1),
   model |-> p.model,
   body |-> <<positions(cfg)[(index % 4) + 1]>>,
   health |-> cfg.initialHealth,
   color |-> SNAKE_COLORS[(index % 6) + 1],
   status |-> "alive",
   eliminationReason |-> Undefined,
   length |-> 1,
   latency |-> <<>>]

\* ---------------------------------------------------------- the machine

\* The engine state a call is made on.
Pre == [turn |-> turn, snakes |-> snakes, food |-> food, width |-> width,
        height |-> height, isGameOver |-> isGameOver, winnerId |-> winnerId]

\* The held snapshot after a step of the engine: an object that shares
\* nothing with this.state is what it was; one that is this.state itself
\* shows what the engine wrote.
SnapshotAfter ==
  [i \in DOMAIN gameState |->
     IF gameState[i].shared THEN [gameState[i] EXCEPT !.state = Pre']
     ELSE gameState[i]]

\* new GameEngine(config), for one of configs.
New(configs) ==
  /\ config \in configs
  /\ width = config.width
  /\ height = config.height
  /\ turn = 0
  /\ snakes = <<>>
  /\ food = <<>>
  /\ isGameOver = FALSE
  /\ winnerId = Undefined
  /\ pc = "constructed"
  /\ call = [op |-> "new", moves |-> <<>>, arg |-> <<>>,
             pre |-> [turn |-> 0, snakes |-> <<>>, food |-> <<>>,
                      width |-> config.width, height |-> config.height,
                      isGameOver |-> FALSE, winnerId |-> Undefined],
             held |-> <<>>]
  /\ gameState = <<>>
  /\ isRunning = FALSE
  /\ isProcessingTurn = FALSE
  /\ requests = <<>>
  /\ turnsInFlight = <<>>
  /\ posted = <<>>
  /\ restarts = 0

Init == New({g.config : g \in Games})

\* initializeGame(players) on a new engine: what it does to the engine.
initializeGame(players) ==
  /\ pc = "constructed"
  /\ snakes' = [i \in DOMAIN players |-> newSnake(players[i], i - 1, config)]
  /\ \E r \in spawnFood(snakes', food, width, height, config) :
       /\ food' = r.food
       /\ pc' = IF r.returns THEN "ready" ELSE "spawnFood"
  /\ call' = [op |-> "initializeGame", moves |-> <<>>, arg |-> players,
              pre |-> Pre, held |-> gameState]
  /\ UNCHANGED <<config, turn, width, height, isGameOver, winnerId>>

\* engine.current.initializeGame(players), called once on a new engine
\* (Game.tsx, on mount and on Restart).
InitializeGame(players) ==
  /\ initializeGame(players)
  /\ gameState' = SnapshotAfter
  /\ UNCHANGED loop

\* A latency sample is a number the engine only stores: the token "1ms".
\* The sample the entries of one explored move list carry: none, or one each
\* while no snake's history holds MaxLatencyLen samples.
listLatencies(S, cfg) ==
  {Undefined} \cup
  (IF Game(cfg).samples /\ \A i \in DOMAIN S : Len(S[i].latency) < MaxLatencyLen
   THEN {"1ms"} ELSE {})

\* The move lists explored for snakes S: at most one entry per snake, in the
\* order of the snakes; an eliminated snake's entry matters only for its
\* latency.  A direction is whatever the move provider's data.move held: one
\* of Directions or (malformed) something else, here "forward".
moveOptions(s, l, malformed) ==
  {<<>>} \cup
  {<<[snakeId |-> s.id, direction |-> d, latency |-> l]>> :
     d \in (IF isAlive(s) THEN Directions \cup malformed
            ELSE IF l # Undefined THEN {"up"} ELSE {})}

RECURSIVE moveListsFrom(_, _, _, _)
moveListsFrom(S, i, l, malformed) ==
  IF i > Len(S) THEN {<<>>}
  ELSE {a \o b : a \in moveOptions(S[i], l, malformed),
                  b \in moveListsFrom(S, i + 1, l, malformed)}

moveLists(S, cfg) ==
  UNION {moveListsFrom(S, 1, l, IF Game(cfg).malformed THEN {"forward"} ELSE {}) :
           l \in listLatencies(S, cfg)}

returnsNever(gameOver) == FALSE

\* if (this.state.isGameOver) return;
returnsEarly(gameOver) == gameOver

\* this.state.snakes.filter((s) => s.status === "alive") after the turn.
remaining(S) == aliveSnakes(S)

gameOverWhenNoneLeft(S) == Len(remaining(S)) < 1

\* The game-over check that ends nextTurn.
gameOverAfter(S) == Len(remaining(S)) <= 1

winnerOfFirstAlive(S, winner) ==
  IF Len(remaining(S)) >= 1 THEN remaining(S)[1].id ELSE winner

winnerAfter(S, winner) ==
  IF Len(remaining(S)) = 1 THEN remaining(S)[1].id ELSE winner

\* nextTurn(moves): what it does to the engine.
nextTurn(moves) ==
  /\ pc = "ready"
  /\ call' = [op |-> "nextTurn", moves |-> moves, arg |-> <<>>,
              pre |-> Pre, held |-> gameState]
  /\ IF returnsEarly(isGameOver)
     THEN UNCHANGED <<engine, pc>>
     ELSE /\ turn < Game(config).turns
          /\ turn' = turn + 1
          /\ IF throws(snakes, moves)
             THEN /\ pc' = "TypeError"
                  /\ UNCHANGED <<snakes, food, isGameOver, winnerId>>
             ELSE LET res == resolve(snakes, food, moves, width, height) IN
               /\ snakes' = res.snakes
               /\ \E r \in spawnFood(res.snakes, res.food, width, height, config) :
                    /\ food' = r.food
                    /\ IF r.returns
                       THEN /\ pc' = "ready"
                            /\ isGameOver' = (isGameOver \/ gameOverAfter(res.snakes))
                            /\ winnerId' = winnerAfter(res.snakes, winnerId)
                       ELSE /\ pc' = "spawnFood"
                            /\ UNCHANGED <<isGameOver, winnerId>>
          /\ UNCHANGED <<width, height>>
  /\ UNCHANGED config

\* engine.current.nextTurn(moves).
NextTurn(moves) ==
  /\ nextTurn(moves)
  /\ gameState' = SnapshotAfter
  /\ UNCHANGED loop

Next ==
  \/ \E count \in Game(config).players : InitializeGame(getRandomModels(count))
  \/ \E moves \in moveLists(snakes, config) : NextTurn(moves)

Spec == Init /\ [][Next]_vars

\* The engine of the live game, with a caller that goes on calling: it calls
\* initializeGame on the new engine, and nextTurn again whenever the call
\* before has returned.  The last conjunct is the weak fairness of the
\* nextTurn calls, written out with the condition under which one can be made.
LiveInit == New({Live.config})

CanCallNextTurn == pc = "ready" /\ (isGameOver \/ turn < Game(config).turns)

LiveSpec ==
  /\ LiveInit
  /\ [][Next]_vars
  /\ WF_vars(\E count \in Game(config).players : InitializeGame(getRandomModels(count)))
  /\ []<>(~CanCallNextTurn) \/ []<><<\E moves \in moveLists(snakes, config) : NextTurn(moves)>>_vars

\* The engine of the knot game.
KnotInit == New({Knot.config})

KnotSpec == KnotInit /\ [][Next]_vars

\* ------------------------------------------- getState, updateSnakeModel

\* The keys a JSON text leaves out when their value is undefined.
OptionalKeys == {"eliminationReason", "winnerId"}

\* JSON.stringify of an object: its keys and values without the keys whose
\* value is undefined.
stringifyObject(obj) ==
  [k \in {key \in DOMAIN obj : key \in OptionalKeys => obj[key] # Undefined} |-> obj[k]]

\* JSON.stringify(this.state).
stringify(st) ==
  stringifyObject([st EXCEPT !.snakes = [i \in DOMAIN st.snakes |->
                                          stringifyObject(st.snakes[i])]])

\* Reading a property of a parsed object: undefined when the key is absent.
get(obj, key) == IF key \in DOMAIN obj THEN obj[key] ELSE Undefined

\* The object JSON.parse builds from the text, as its readers see it.
parse(text) ==
  [turn |-> text.turn,
   snakes |-> [i \in DOMAIN text.snakes |->
                 [id |-> text.snakes[i].id,
                  name |-> text.snakes[i].name,
                  model |-> text.snakes[i].model,
                  body |-> text.snakes[i].body,
                  health |-> text.snakes[i].health,
                  color |-> text.snakes[i].color,
                  status |-> text.snakes[i].status,
                  eliminationReason |-> get(text.snakes[i], "eliminationReason"),
                  length |-> text.snakes[i].length,
                  latency |-> text.snakes[i].latency]],
   food |-> text.food,
   width |-> text.width,
   height |-> text.height,
   isGameOver |-> text.isGameOver,
   winnerId |-> get(text, "winnerId")]

getStateByReference(st) == [state |-> st, shared |-> TRUE, mutated |-> FALSE]

\* getState(): what it returns for this.state = st.  The object JSON.parse
\* builds shares nothing with this.state (shared = FALSE); mutated records
\* whether its holder has written to it.
getState(st) == [state |-> parse(stringify(st)), shared |-> FALSE, mutated |-> FALSE]

updateSnakeModelAndName(S, snakeId, model) ==
  [i \in DOMAIN S |->
     IF S[i].id = snakeId THEN [S[i] EXCEPT !.model = model, !.name = model]
     ELSE S[i]]

\* updateSnakeModel(snakeId, model): the snakes after it.
updateSnakeModel(S, snakeId, model) ==
  [i \in DOMAIN S |->
     IF S[i].id = snakeId /\ \A j \in 1..(i - 1) : S[j].id # snakeId
     THEN [S[i] EXCEPT !.model = model]
     ELSE S[i]]

\* What a holder may do to a GameState object it was handed.
Mutations == {"food.length = 0", "snakes[0].health = 0", "isGameOver = true"}

mutate(st, m) ==
  CASE m = "food.length = 0" -> [st EXCEPT !.food = <<>>]
    [] m = "snakes[0].health = 0" ->
         [st EXCEPT !.snakes = [i \in DOMAIN @ |->
                                  IF i = 1 THEN [@[i] EXCEPT !.health = 0] ELSE @[i]]]
    [] m = "isGameOver = true" -> [st EXCEPT !.isGameOver = TRUE]

\* engine.current.getState(), its result kept by the caller.
GetState ==
  /\ pc \in {"constructed", "ready"}
  /\ gameState' = <<getState(Pre)>>
  /\ call' = [op |-> "getState", moves |-> <<>>, arg |-> <<>>,
              pre |-> Pre, held |-> gameState]
  /\ UNCHANGED <<config, engine, pc, loop>>

\* The holder of a snapshot writes to it.  The write shows in this.state
\* when the snapshot is this.state.
MutateSnapshot(m) ==
  /\ gameState # <<>>
  /\ ~gameState[1].mutated
  /\ gameState' = <<[gameState[1] EXCEPT !.state = mutate(@, m), !.mutated = TRUE]>>
  /\ LET after == IF gameState[1].shared THEN mutate(Pre, m) ELSE Pre IN
       /\ turn' = after.turn
       /\ snakes' = after.snakes
       /\ food' = after.food
       /\ width' = after.width
       /\ height' = after.height
       /\ isGameOver' = after.isGameOver
       /\ winnerId' = after.winnerId
  /\ call' = [op |-> "mutate", moves |-> <<>>, arg |-> <<m>>,
              pre |-> Pre, held |-> gameState]
  /\ UNCHANGED <<config, pc, loop>>

\* The snakes whose model is not the one initializeGame gave them.
Relabelled(S) ==
  {i \in DOMAIN S : S[i].model # getRandomModels(Len(S))[i].model}

\* engine.current.updateSnakeModel(snakeId, model) (Game.tsx, handleModelChange).
UpdateSnakeModel(snakeId, model) ==
  /\ pc = "ready"
  /\ Cardinality(Relabelled(snakes)) < MaxRelabels
  /\ snakes' = updateSnakeModel(snakes, snakeId, model)
  /\ call' = [op |-> "updateSnakeModel", moves |-> <<>>, arg |-> <<snakeId, model>>,
              pre |-> Pre, held |-> gameState]
  /\ UNCHANGED <<config, turn, food, width, height, isGameOver, winnerId, pc>>
  /\ gameState' = SnapshotAfter
  /\ UNCHANGED loop

\* The engine of the pair game with all of its public methods in use.
ApiInit ==
  /\ Init
  /\ config = GameConfig(TrioWidth, Height, InitialHealth, 0)

ApiNext ==
  \/ \E count \in Game(config).players : InitializeGame(getRandomModels(count))
  \/ \E moves \in moveLists(snakes, config) : NextTurn(moves)
  \/ GetState
  \/ \E m \in Mutations : MutateSnapshot(m)
  \/ \E i \in 0..Len(snakes) :
       UpdateSnakeModel("snake-" \o ToString(i), AVAILABLE_MODELS[4])

ApiSpec == ApiInit /\ [][ApiNext]_vars

\* ------------------------------------------------- Game.tsx: the turn loop

\* A move promise is "pending" while its fetch is awaited, "reading" while
\* res.json() is awaited, and settled with "null" or with data.move, which
\* the move route takes from z.enum(["up", "down", "left", "right"]).
Settled(r) == r.result \notin {"pending", "reading"}

\* The mount effect: initializeGame(getRandomModels(...)), setGameState(getState()).
Mount ==
  /\ \E count \in Game(config).players : initializeGame(getRandomModels(count))
  /\ gameState' = IF pc' = "ready" THEN <<getState(Pre')>> ELSE gameState
  /\ UNCHANGED loop

\* The Start/Pause button.
ToggleRunning ==
  /\ isRunning' = ~isRunning
  /\ UNCHANGED <<config, engine, pc, call, gameState, isProcessingTurn, requests,
                 turnsInFlight, posted, restarts>>

RunTurnWhileProcessing ==
  /\ pc = "ready"
  /\ isRunning
  /\ gameState # <<>> /\ ~gameState[1].state.isGameOver
  /\ turn < Game(config).turns
  /\ isProcessingTurn' = TRUE
  /\ LET currentSnakes == aliveSnakes(gameState[1].state.snakes)
     IN  requests' = [i \in DOMAIN currentSnakes |->
                        [snakeId |-> currentSnakes[i].id, result |-> "pending"]]
  /\ turnsInFlight' = Append(turnsInFlight, gameState[1].state)
  /\ UNCHANGED <<config, engine, pc, call, gameState, isRunning, posted, restarts>>

\* The timer calls runTurn: up to the await of Promise.all.  Every alive
\* snake of gameState gets its request in the same step.
RunTurn ==
  /\ pc = "ready"
  /\ isRunning /\ ~isProcessingTurn
  /\ gameState # <<>> /\ ~gameState[1].state.isGameOver
  /\ turn < Game(config).turns
  /\ isProcessingTurn' = TRUE
  /\ LET currentSnakes == aliveSnakes(gameState[1].state.snakes)
     IN  requests' = [i \in DOMAIN currentSnakes |->
                        [snakeId |-> currentSnakes[i].id, result |-> "pending"]]
  /\ turnsInFlight' = Append(turnsInFlight, gameState[1].state)
  /\ UNCHANGED <<config, engine, pc, call, gameState, isRunning, posted, restarts>>

\* Request i goes from one stage to another; nothing else changes.
Becomes(i, from, to) ==
  /\ isProcessingTurn
  /\ i \in DOMAIN requests
  /\ requests[i].result = from
  /\ requests' = [requests EXCEPT ![i].result = to]
  /\ UNCHANGED <<config, engine, pc, call, gameState, isRunning, isProcessingTurn,
                 turnsInFlight, posted, restarts>>

\* fetch resolves with an OK response: the timer is cleared, res.json() awaited.
FetchOk(i) == Becomes(i, "pending", "reading")

\* fetch resolves with a response that is not OK: throw, caught, null.
FetchNotOk(i) == Becomes(i, "pending", "null")

\* fetch rejects (the network failed): caught, null.
FetchRejects(i) == Becomes(i, "pending", "null")

\* The request's 10 s timer fires while fetch is awaited: controller.abort(),
\* fetch rejects, caught, null.
Abort(i) == Becomes(i, "pending", "null")

\* res.json() resolves: the promise resolves with the move.
BodyParsed(i, direction) == Becomes(i, "reading", direction)

\* res.json() rejects: caught, null.
BodyRejects(i) == Becomes(i, "reading", "null")

\* results.filter((m) => m !== null), as the Move list handed to nextTurn.
validMoves(results) ==
  LET kept == SelectSeq(results, LAMBDA r : r.result # "null")
  IN  [i \in DOMAIN kept |->
         [snakeId |-> kept[i].snakeId, direction |-> kept[i].result,
          latency |-> "1ms"]]

\* reportResults(finalState): the results it puts in the body of its POST to
\* /api/leaderboard, one for each snake of finalState, in that order.
reportResults(finalState) ==
  [i \in DOMAIN finalState.snakes |->
     [model |-> finalState.snakes[i].model,
      rank |-> IF finalState.winnerId = finalState.snakes[i].id THEN 1
               ELSE IF finalState.snakes[i].status = "eliminated" THEN 3
               ELSE 2]]

FinishReportingEveryTurn ==
  /\ isProcessingTurn
  /\ \A i \in DOMAIN requests : Settled(requests[i])
  /\ nextTurn(validMoves(requests))
  /\ IF pc' = "ready"
     THEN /\ gameState' = <<getState(Pre')>>
          /\ isRunning' = (isRunning /\ ~isGameOver')
          /\ posted' = Append(posted, reportResults(gameState'[1].state))
          /\ isProcessingTurn' = FALSE
          /\ turnsInFlight' = Tail(turnsInFlight)
     ELSE UNCHANGED <<gameState, isRunning, isProcessingTurn, turnsInFlight, posted>>
  /\ UNCHANGED <<requests, restarts>>

\* runTurn from the return of Promise.all on: nextTurn(validMoves),
\* setGameState(getState()), and when the game is over setIsRunning(false)
\* and reportResults(newState), which sends its POST before its first await;
\* then setIsProcessingTurn(false).  When nextTurn does not return, none of
\* these.
Finish ==
  /\ isProcessingTurn
  /\ \A i \in DOMAIN requests : Settled(requests[i])
  /\ nextTurn(validMoves(requests))
  /\ IF pc' = "ready"
     THEN /\ gameState' = <<getState(Pre')>>
          /\ isRunning' = (isRunning /\ ~isGameOver')
          /\ posted' = IF gameState'[1].state.isGameOver
                       THEN Append(posted, reportResults(gameState'[1].state))
                       ELSE posted
          /\ isProcessingTurn' = FALSE
          /\ turnsInFlight' = Tail(turnsInFlight)
     ELSE UNCHANGED <<gameState, isRunning, isProcessingTurn, turnsInFlight, posted>>
  /\ UNCHANGED <<requests, restarts>>

\* handleModelChange(snakeId, newModel): updateSnakeModel on the engine, then
\* setGameState(getState()).
HandleModelChange(snakeId, model) ==
  /\ pc = "ready"
  /\ gameState # <<>>
  /\ Cardinality(Relabelled(snakes)) < MaxRelabels
  /\ snakes' = updateSnakeModel(snakes, snakeId, model)
  /\ call' = [op |-> "updateSnakeModel", moves |-> <<>>, arg |-> <<snakeId, model>>,
              pre |-> Pre, held |-> gameState]
  /\ UNCHANGED <<config, turn, food, width, height, isGameOver, winnerId, pc>>
  /\ gameState' = <<getState(Pre')>>
  /\ UNCHANGED loop

\* The Restart button, which is shown once gameState is game over:
\* setIsRunning(false), engine.current = new GameEngine(),
\* initializeGame(getRandomModels(...)), setGameState(getState()).
Restart ==
  /\ gameState # <<>> /\ gameState[1].state.isGameOver
  /\ restarts < MaxRestarts
  /\ isRunning' = FALSE
  /\ UNCHANGED <<config, width, height>>
  /\ turn' = 0
  /\ isGameOver' = FALSE
  /\ winnerId' = Undefined
  /\ \E count \in Game(config).players :
       LET players == getRandomModels(count)
       IN  /\ snakes' = [i \in DOMAIN players |-> newSnake(players[i], i - 1, config)]
           /\ call' = [op |-> "initializeGame", moves |-> <<>>, arg |-> players,
                       pre |-> [turn |-> 0, snakes |-> <<>>, food |-> <<>>,
                                width |-> width, height |-> height,
                                isGameOver |-> FALSE, winnerId |-> Undefined],
                       held |-> gameState]
  /\ \E r \in spawnFood(snakes', <<>>, width, height, config) :
       /\ food' = r.food
       /\ pc' = IF r.returns THEN "ready" ELSE "spawnFood"
  /\ gameState' = IF pc' = "ready" THEN <<getState(Pre')>> ELSE gameState
  /\ restarts' = restarts + 1
  /\ UNCHANGED <<isProcessingTurn, requests, turnsInFlight, posted>>

\* await Promise.all(moveRequests) has returned and the engine accepts the
\* call: the states in which Finish can be taken.  The last conjunct of
\* LoopSpec is the weak fairness of Finish written out with this condition.
PromiseAllResolved ==
  /\ isProcessingTurn
  /\ \A i \in DOMAIN requests : Settled(requests[i])
  /\ pc = "ready"
  /\ isGameOver \/ turn < Game(config).turns

\* The Game component on the engine of the loop game.
LoopInit == New({Loop.config})

LoopNext ==
  \/ Mount
  \/ ToggleRunning
  \/ RunTurn
  \/ \E i \in 1..DuelPlayers : FetchOk(i)
  \/ \E i \in 1..DuelPlayers : FetchNotOk(i)
  \/ \E i \in 1..DuelPlayers : FetchRejects(i)
  \/ \E i \in 1..DuelPlayers : Abort(i)
  \/ \E i \in 1..DuelPlayers, direction \in Directions : BodyParsed(i, direction)
  \/ \E i \in 1..DuelPlayers : BodyRejects(i)
  \/ Finish
  \/ \E i \in 1..DuelPlayers :
       HandleModelChange("snake-" \o ToString(i), AVAILABLE_MODELS[4])

\* What the code's scheduling guarantees: a request's timer fires unless its
\* fetch has settled before, and the continuation of Promise.all runs once
\* every promise has settled.  Nothing bounds the wait for res.json().
LoopSpec ==
  /\ LoopInit
  /\ [][LoopNext]_vars
  /\ \A i \in 1..DuelPlayers : WF_vars(Abort(i))
  /\ []<>(~PromiseAllResolved) \/ []<><<Finish>>_vars

\* The Game component with its Restart button, on the engine of the rematch
\* game: every game Restart starts is a game of the same kind.
RematchInit == New({Rematch.config})

RematchNext == LoopNext \/ Restart

RematchSpec == RematchInit /\ [][RematchNext]_vars

\* ------------------------------------------------------------ properties

\* The last call was a nextTurn on a state that was not game over, and it
\* returned: a resolved turn.  The state it was made on is call.pre.
Resolved == call.op = "nextTurn" /\ ~call.pre.isGameOver /\ pc = "ready"

Agents == DOMAIN call.pre.snakes

AliveBefore(i) == isAlive(call.pre.snakes[i])

SubmittedMove(i) == hasMove(call.moves, call.pre.snakes[i].id)

\* Alive at the start of the turn, with an entry in the move list.
Mover(i) == AliveBefore(i) /\ SubmittedMove(i)

ProjectedHead(i) == nextHead(call.pre.snakes[i], call.moves)

ProjectedBody(i) == nextBody(call.pre.snakes[i], call.pre.food, call.moves)

LandsOnFood(i) == isPointInList(ProjectedHead(i), call.pre.food)

CollisionReasons ==
  {"timeout", "out-of-bounds", "self-collision", "body-collision",
   "head-to-head-collision"}

\* Eliminated in the last turn by one of the checks of steps 4 and 5.
EliminatedByCollision(i) ==
  /\ AliveBefore(i)
  /\ snakes[i].status = "eliminated"
  /\ snakes[i].eliminationReason \in CollisionReasons

EliminatedFor(i, reason) ==
  snakes[i].status = "eliminated" /\ snakes[i].eliminationReason = reason

\* The cell is behind the head in the projected body of some mover.
InProjectedTail(p) ==
  \E k \in Agents : Mover(k) /\ isPointInList(p, Tail(ProjectedBody(k)))

InsideBoard(p) == p.x >= 0 /\ p.x < width /\ p.y >= 0 /\ p.y < height

\* Two distinct movers with the same projected head.
SameTarget(i, j) ==
  i # j /\ Mover(i) /\ Mover(j) /\ ProjectedHead(i) = ProjectedHead(j)

BodyLen(i) == Len(call.pre.snakes[i].body)

\* C1: nextTurn on a state with isGameOver true changes nothing: turn, every
\* snake record (latency included), food and winnerId are what they were.
C1_NoOpWhenGameOver ==
  (call.op = "nextTurn" /\ call.pre.isGameOver) => Pre = call.pre

\* A nextTurn call on a finished game whose list carries a move with a
\* latency sample for a snake of the game.
C1_Witness ==
  /\ call.op = "nextTurn" /\ call.pre.isGameOver
  /\ \E m \in DOMAIN call.moves :
       /\ call.moves[m].latency # Undefined
       /\ \E i \in Agents : call.pre.snakes[i].id = call.moves[m].snakeId
  /\ Pre = call.pre

\* C2 as claimed: two alive agents of equal body length moving into the same
\* cell are both eliminated, both with reason head-to-head-collision.
C2_Original ==
  Resolved =>
    \A i, j \in Agents :
      (SameTarget(i, j) /\ BodyLen(i) = BodyLen(j)) =>
        /\ EliminatedFor(i, "head-to-head-collision")
        /\ EliminatedFor(j, "head-to-head-collision")

\* C2 as amended: two alive agents of equal body length moving into the same
\* cell are both eliminated; both with reason head-to-head-collision when the
\* cell is inside the board and behind the head of no projected body, and
\* otherwise each with reason self-collision, body-collision or out-of-bounds.
C2_EqualLengthBothEliminated ==
  Resolved =>
    \A i, j \in Agents :
      (SameTarget(i, j) /\ BodyLen(i) = BodyLen(j)) =>
        /\ snakes[i].status = "eliminated" /\ snakes[j].status = "eliminated"
        /\ IF InsideBoard(ProjectedHead(i)) /\ ~InProjectedTail(ProjectedHead(i))
           THEN /\ EliminatedFor(i, "head-to-head-collision")
                /\ EliminatedFor(j, "head-to-head-collision")
           ELSE {snakes[i].eliminationReason, snakes[j].eliminationReason}
                  \subseteq {"self-collision", "body-collision", "out-of-bounds"}

\* Two agents of equal length met head to head on a free cell and both died.
C2_Witness ==
  /\ Resolved
  /\ \E i, j \in Agents :
       /\ SameTarget(i, j) /\ BodyLen(i) = BodyLen(j)
       /\ InsideBoard(ProjectedHead(i)) /\ ~InProjectedTail(ProjectedHead(i))
       /\ EliminatedFor(i, "head-to-head-collision")
       /\ EliminatedFor(j, "head-to-head-collision")

\* No third mover at least as long as agent i has i's projected head.
NoRival(i, j) ==
  ~\E k \in Agents :
     /\ k # i /\ k # j /\ Mover(k)
     /\ ProjectedHead(k) = ProjectedHead(i)
     /\ BodyLen(k) >= BodyLen(i)

\* Agent i does not run out of health in the turn.
Fed(i) == LandsOnFood(i) \/ call.pre.snakes[i].health > HealthLoss

\* C3 as claimed: of two alive agents of different body length moving into
\* the same cell, the longer is alive after the turn and the shorter is
\* eliminated.
C3_Original ==
  Resolved =>
    \A i, j \in Agents :
      (SameTarget(i, j) /\ BodyLen(i) > BodyLen(j)) =>
        /\ snakes[i].status = "alive"
        /\ snakes[j].status = "eliminated"

\* C3 as amended: the shorter is always eliminated; the longer is alive after
\* the turn when the cell is inside the board and behind the head of no
\* projected body, no third agent at least as long as it moves into the cell
\* too, and it does not starve in the turn (the shorter then has reason
\* head-to-head-collision).
C3_LongerSurvives ==
  Resolved =>
    \A i, j \in Agents :
      (SameTarget(i, j) /\ BodyLen(i) > BodyLen(j)) =>
        /\ snakes[j].status = "eliminated"
        /\ (/\ InsideBoard(ProjectedHead(i))
            /\ ~InProjectedTail(ProjectedHead(i))
            /\ NoRival(i, j)
            /\ Fed(i))
           => /\ snakes[i].status = "alive"
              /\ EliminatedFor(j, "head-to-head-collision")

\* A longer and a shorter agent met head to head; the longer lives on.
C3_Witness ==
  /\ Resolved
  /\ \E i, j \in Agents :
       /\ SameTarget(i, j) /\ BodyLen(i) > BodyLen(j)
       /\ snakes[i].status = "alive"
       /\ EliminatedFor(j, "head-to-head-collision")

Max(a, b) == IF a >= b THEN a ELSE b

C5_Growth ==
  Resolved =>
    \A i \in Agents :
      /\ (Mover(i) /\ LandsOnFood(i) /\ ~EliminatedByCollision(i)) =>
           /\ snakes[i].status = "alive"
           /\ snakes[i].health = FullHealth
           /\ snakes[i].length = call.pre.snakes[i].length + 1
           /\ snakes[i].body = <<ProjectedHead(i)>> \o call.pre.snakes[i].body
      /\ (Mover(i) /\ ~LandsOnFood(i)) =>
           /\ Len(snakes[i].body) = BodyLen(i)
           /\ snakes[i].length = call.pre.snakes[i].length

\* An agent ate and grew while another moved without eating.
C5_Witness ==
  /\ Resolved
  /\ \E i, j \in Agents :
       /\ Mover(i) /\ LandsOnFood(i) /\ snakes[i].status = "alive"
       /\ Len(snakes[i].body) = BodyLen(i) + 1
       /\ Mover(j) /\ ~LandsOnFood(j) /\ snakes[j].status = "alive"

\* C6: an alive agent whose projected head is outside the board is eliminated
\* with reason out-of-bounds and health 0 and keeps its body and length; the
\* board's width and height and the agents' identities are unchanged.
C6_OutOfBounds ==
  Resolved =>
    /\ width = call.pre.width /\ height = call.pre.height
    /\ Len(snakes) = Len(call.pre.snakes)
    /\ \A i \in Agents : snakes[i].id = call.pre.snakes[i].id
    /\ \A i \in Agents :
         (Mover(i) /\ ~InsideBoard(ProjectedHead(i))) =>
           /\ EliminatedFor(i, "out-of-bounds")
           /\ snakes[i].health = 0
           /\ snakes[i].body = call.pre.snakes[i].body
           /\ snakes[i].length = call.pre.snakes[i].length

\* An agent at x = 0 moved left, another at the right edge moved right.
C6_Witness ==
  /\ Resolved
  /\ \E i, j \in Agents :
       /\ Mover(i) /\ call.pre.snakes[i].body[1].x = 0
       /\ findMove(call.moves, snakes[i].id).direction = "left"
       /\ EliminatedFor(i, "out-of-bounds")
       /\ Mover(j) /\ ProjectedHead(j).x = width
       /\ EliminatedFor(j, "out-of-bounds")

AliveNow == {i \in DOMAIN snakes : isAlive(snakes[i])}

\* C7: after every resolved turn isGameOver holds exactly when at most one
\* agent is alive; with exactly one alive winnerId is its id, with none alive
\* winnerId is undefined.
C7_GameOver ==
  (pc = "ready" /\ turn > 0) =>
    /\ isGameOver <=> Cardinality(AliveNow) <= 1
    /\ \A i \in AliveNow : Cardinality(AliveNow) = 1 => winnerId = snakes[i].id
    /\ AliveNow = {} => winnerId = Undefined
    /\ Cardinality(AliveNow) > 1 => winnerId = Undefined

\* The last two agents collided head-on with equal length: game over, no winner.
C7_Witness ==
  /\ Resolved
  /\ Cardinality({i \in Agents : AliveBefore(i)}) = 2
  /\ \A i \in Agents : AliveBefore(i) => EliminatedFor(i, "head-to-head-collision")
  /\ isGameOver /\ winnerId = Undefined

\* The food list the last turn handed to spawnFood.
FoodBeforeSpawn ==
  resolve(call.pre.snakes, call.pre.food, call.moves,
          call.pre.width, call.pre.height).food

\* C8: after a resolved turn there are at least minFood food items whenever a
\* vacant cell existed to place one.
C8_MinimumFood ==
  (Resolved /\ vacantCells(snakes, FoodBeforeSpawn, width, height) # {})
    => Len(food) >= config.minFood

\* A turn in which the food was eaten and replaced.
C8_Witness ==
  /\ Resolved
  /\ Len(FoodBeforeSpawn) < config.minFood
  /\ vacantCells(snakes, FoodBeforeSpawn, width, height) # {}
  /\ Len(food) >= config.minFood

\* C9 as claimed: the food spawner always terminates: spawnFood, and with it
\* nextTurn and initializeGame, returns also when there are fewer than minFood
\* items and no vacant cell.
C9_SpawnFoodReturns == pc # "spawnFood"

\* The snakes of the state the last turn was made on, without those that were
\* alive and had no entry in the move list.
WithoutTimedOut ==
  SelectSeq(call.pre.snakes,
            LAMBDA s : ~(isAlive(s) /\ ~hasMove(call.moves, s.id)))

FindSnake(S, id) == S[CHOOSE k \in DOMAIN S : S[k].id = id]

\* C10: an alive agent with no entry in the move list is eliminated with
\* reason timeout and health 0 and keeps its body; the others end the turn as
\* they would if the agents without a move were not on the board.
C10_Timeout ==
  Resolved =>
    /\ \A i \in Agents :
         (AliveBefore(i) /\ ~SubmittedMove(i)) =>
           /\ EliminatedFor(i, "timeout")
           /\ snakes[i].health = 0
           /\ snakes[i].body = call.pre.snakes[i].body
    /\ \A i \in Agents :
         ~(AliveBefore(i) /\ ~SubmittedMove(i)) =>
           snakes[i] = FindSnake(mapSnakes(WithoutTimedOut, call.pre.food, call.moves,
                                           call.pre.width, call.pre.height),
                                 snakes[i].id)

\* An agent without a move timed out where it stood while another moved onto
\* its head cell and lives.
C10_Witness ==
  /\ Resolved
  /\ \E i, j \in Agents :
       /\ AliveBefore(i) /\ ~SubmittedMove(i)
       /\ EliminatedFor(i, "timeout")
       /\ Mover(j) /\ ProjectedHead(j) = call.pre.snakes[i].body[1]
       /\ snakes[j].status = "alive"

\* An alive agent whose entry in the last call's move list has a direction
\* that is not one of up, down, left, right.
Unparseable(i) ==
  /\ AliveBefore(i) /\ SubmittedMove(i)
  /\ findMove(call.moves, call.pre.snakes[i].id).direction \notin Directions

\* C11 as claimed: nextTurn handles a move entry with an unparseable direction
\* as a timeout: it returns without raising an exception and the agent ends
\* the turn eliminated with reason timeout.
C11_UnparseableIsTimeout ==
  (call.op = "nextTurn" /\ ~call.pre.isGameOver /\ pc # "spawnFood") =>
    \A i \in Agents :
      Unparseable(i) => (pc = "ready" /\ EliminatedFor(i, "timeout"))

\* The last call ran spawnFood: initializeGame, or a nextTurn that got there.
Spawned ==
  \/ call.op = "initializeGame"
  \/ call.op = "nextTurn" /\ ~call.pre.isGameOver /\ pc # "TypeError"

\* The food list that call handed to spawnFood; what spawnFood pushed is
\* behind it in food.
SpawnBase == IF call.op = "nextTurn" THEN FoodBeforeSpawn ELSE call.pre.food

Added == (Len(SpawnBase) + 1)..Len(food)

InAliveBody(p) ==
  \E i \in DOMAIN snakes : isAlive(snakes[i]) /\ isPointInList(p, snakes[i].body)

InEliminatedBody(p) ==
  \E i \in DOMAIN snakes : ~isAlive(snakes[i]) /\ isPointInList(p, snakes[i].body)

\* C12: every food item the spawner adds, in initializeGame or at the end of
\* a turn, is on a cell inside the board that at placement is in no alive
\* agent's body (as it is after the turn) and holds no food.
C12_FoodPlacement ==
  Spawned =>
    /\ SubSeq(food, 1, Len(SpawnBase)) = SpawnBase
    /\ \A k \in Added :
         /\ InsideBoard(food[k])
         /\ ~InAliveBody(food[k])
         /\ ~isPointInList(food[k], SubSeq(food, 1, k - 1))

\* A turn whose spawner put food on a cell of an eliminated agent's body.
C12_Witness ==
  /\ Resolved
  /\ \E k \in Added : InEliminatedBody(food[k]) /\ ~InAliveBody(food[k])

IsPrefix(a, b) == Len(a) <= Len(b) /\ SubSeq(b, 1, Len(a)) = a

EliminationReasons == CollisionReasons \cup {"starvation"}

\* C13: elimination is terminal.  An agent eliminated before a nextTurn call
\* has the same status, eliminationReason, body, health and length after it
\* (its latency history may only grow); eliminationReason is defined exactly
\* when status is eliminated, and is written in the turn of the elimination.
C13_EliminationTerminal ==
  /\ \A i \in DOMAIN snakes :
       /\ snakes[i].status \in {"alive", "eliminated"}
       /\ (snakes[i].eliminationReason # Undefined) <=> (snakes[i].status = "eliminated")
  /\ call.op = "nextTurn" =>
       \A i \in Agents :
         /\ ~AliveBefore(i) =>
              /\ snakes[i].status = "eliminated"
              /\ snakes[i].eliminationReason = call.pre.snakes[i].eliminationReason
              /\ snakes[i].body = call.pre.snakes[i].body
              /\ snakes[i].health = call.pre.snakes[i].health
              /\ snakes[i].length = call.pre.snakes[i].length
              /\ IsPrefix(call.pre.snakes[i].latency, snakes[i].latency)
         /\ (AliveBefore(i) /\ snakes[i].status = "eliminated") =>
              snakes[i].eliminationReason \in EliminationReasons

\* A resolved turn on a game with an eliminated agent whose move entry only
\* made its latency history grow, while another agent was eliminated.
C13_Witness ==
  /\ Resolved
  /\ \E i, j \in Agents :
       /\ ~AliveBefore(i) /\ SubmittedMove(i)
       /\ Len(snakes[i].latency) > Len(call.pre.snakes[i].latency)
       /\ snakes[i].eliminationReason = call.pre.snakes[i].eliminationReason
       /\ AliveBefore(j) /\ snakes[j].status = "eliminated"

\* C14: in every reachable state every agent's health is an integer from 0 to
\* 100, it is 0 exactly when the agent is eliminated, and an agent eliminated
\* by starvation has health 0.  (Every game starts from an initialHealth
\* between 1 and 100.)
C14_HealthRange ==
  \A i \in DOMAIN snakes :
    /\ snakes[i].health \in 0..FullHealth
    /\ (snakes[i].health = 0) <=> (snakes[i].status = "eliminated")
    /\ snakes[i].eliminationReason = "starvation" => snakes[i].health = 0

\* After a resolved turn one agent has starved, one was eliminated by a
\* collision check and one has just eaten.
C14_Witness ==
  /\ pc = "ready"
  /\ \E i, j, k \in DOMAIN snakes :
       /\ EliminatedFor(i, "starvation") /\ snakes[i].health = 0
       /\ isAlive(snakes[j]) /\ snakes[j].health = FullHealth
       /\ snakes[k].status = "eliminated"
       /\ snakes[k].eliminationReason \in CollisionReasons

Abs(n) == IF n < 0 THEN 0 - n ELSE n

Manhattan(p, q) == Abs(p.x - q.x) + Abs(p.y - q.y)

\* C15: in every reachable state every agent, alive or eliminated, has a body
\* of at least one cell whose consecutive cells are at Manhattan distance
\* exactly 1.
C15_BodyAdjacent ==
  \A i \in DOMAIN snakes :
    /\ Len(snakes[i].body) >= 1
    /\ \A k \in 1..(Len(snakes[i].body) - 1) :
         Manhattan(snakes[i].body[k], snakes[i].body[k + 1]) = 1

\* An agent that has eaten twice and turned a corner, next to an eliminated
\* agent that had grown before it was eliminated.
C15_Witness ==
  \E i, j \in DOMAIN snakes :
    /\ Len(snakes[i].body) >= 3
    /\ snakes[i].body[1].x # snakes[i].body[3].x
    /\ snakes[i].body[1].y # snakes[i].body[3].y
    /\ snakes[j].status = "eliminated" /\ Len(snakes[j].body) >= 2

\* C16: turn is 0 until the first nextTurn call, goes up by exactly 1 in each
\* nextTurn call made while isGameOver is false and is left alone by every
\* other call; isGameOver never goes back from true to false; winnerId never
\* changes once set, and is set only by a turn that leaves exactly one agent
\* alive, to that agent's id.
C16_Monotonic ==
  /\ call.op = "new" => turn = 0
  /\ call.op # "nextTurn" => turn = call.pre.turn
  /\ call.op = "nextTurn" =>
       turn = call.pre.turn + (IF call.pre.isGameOver THEN 0 ELSE 1)
  /\ call.pre.isGameOver => isGameOver
  /\ call.pre.winnerId # Undefined => winnerId = call.pre.winnerId
  /\ winnerId # call.pre.winnerId =>
       /\ call.op = "nextTurn" /\ ~call.pre.isGameOver /\ isGameOver
       /\ Cardinality(AliveNow) = 1
       /\ \A i \in AliveNow : winnerId = snakes[i].id

\* The second turn of a game left one agent alive and made it the winner.
C16_Witness ==
  /\ Resolved
  /\ call.pre.turn >= 1 /\ turn = call.pre.turn + 1
  /\ call.pre.winnerId = Undefined /\ winnerId # Undefined
  /\ isGameOver

\* C17: getState returns a deep, independent copy of the state: the copy
\* shows the state as it was, a write its holder makes to it leaves the
\* engine's state as it was, and no later call on the engine (nextTurn,
\* updateSnakeModel) changes a snapshot returned before.
C17_SnapshotIndependent ==
  /\ call.op = "getState" => (gameState[1].state = Pre /\ Pre = call.pre)
  /\ call.op = "mutate" => Pre = call.pre
  /\ call.op \in {"initializeGame", "nextTurn", "updateSnakeModel"} =>
       gameState = call.held

\* A turn was resolved while the caller held a snapshot it had written to;
\* the engine went on from its own state and the snapshot kept the write.
C17_Witness ==
  /\ Resolved
  /\ gameState # <<>> /\ gameState[1].mutated
  /\ gameState = call.held
  /\ call.pre.snakes # snakes
  /\ \E m \in Mutations :
       /\ mutate(call.pre, m) # call.pre
       /\ gameState[1].state = mutate(call.pre, m)

\* The snakes with the model initializeGame gave each of them.
Original(S) ==
  [i \in DOMAIN S |-> [S[i] EXCEPT !.model = getRandomModels(Len(S))[i].model]]

\* C18: updateSnakeModel changes the model field of the agent with the given
\* id and nothing else, and nothing at all when no agent has that id; a later
\* nextTurn resolves as it would, had no model been changed: same throwing,
\* same snake records up to the model field, same food removed, same food
\* the spawner may add, same isGameOver and winnerId.
C18_UpdateSnakeModel ==
  /\ call.op = "updateSnakeModel" =>
       /\ [Pre EXCEPT !.snakes = call.pre.snakes] = call.pre
       /\ DOMAIN snakes = DOMAIN call.pre.snakes
       /\ \A i \in Agents :
            snakes[i] = IF call.pre.snakes[i].id = call.arg[1]
                        THEN [call.pre.snakes[i] EXCEPT !.model = call.arg[2]]
                        ELSE call.pre.snakes[i]
  /\ (call.op = "nextTurn" /\ ~call.pre.isGameOver) =>
       LET S == call.pre.snakes
           F == call.pre.food
           a == resolve(S, F, call.moves, width, height)
           b == resolve(Original(S), F, call.moves, width, height)
       IN  /\ throws(S, call.moves) <=> throws(Original(S), call.moves)
           /\ ~throws(S, call.moves) =>
                /\ Original(a.snakes) = b.snakes
                /\ a.food = b.food
                /\ spawnFood(a.snakes, a.food, width, height, config)
                     = spawnFood(b.snakes, b.food, width, height, config)
                /\ gameOverAfter(a.snakes) <=> gameOverAfter(b.snakes)
                /\ winnerAfter(a.snakes, Undefined) = winnerAfter(b.snakes, Undefined)
                /\ pc = "ready" =>
                     /\ Original(snakes) = b.snakes
                     /\ \E r \in spawnFood(b.snakes, b.food, width, height, config) :
                          r.returns /\ food = r.food
                     /\ isGameOver <=> gameOverAfter(b.snakes)
                     /\ winnerId = winnerAfter(b.snakes, call.pre.winnerId)

\* A turn resolved after an agent's model was changed: the agent kept the new
\* model and ate, another agent was eliminated.
C18_Witness ==
  /\ Resolved
  /\ \E i, j \in Agents :
       /\ i \in Relabelled(call.pre.snakes)
       /\ snakes[i].model = AVAILABLE_MODELS[4]
       /\ Len(snakes[i].body) > BodyLen(i)
       /\ AliveBefore(j) /\ snakes[j].status = "eliminated"

Permuted(list, f) == [i \in DOMAIN list |-> list[f[i]]]

\* What a turn did to each agent, by id, whatever the agent's place in the array.
Outcome(S) ==
  {[id |-> S[i].id, status |-> S[i].status,
    eliminationReason |-> S[i].eliminationReason, body |-> S[i].body,
    health |-> S[i].health, length |-> S[i].length] : i \in DOMAIN S}

Cells(list) == {list[k] : k \in DOMAIN list}

\* C19: apart from food spawning a turn's result is a function of the state
\* and the set of moves: with at most one move per agent, every agent's
\* status, eliminationReason, body, health and length and the set of food
\* items removed are the same for every order of the entries of the move list
\* and every order of the agents in the snakes array.
C19_OrderIndependent ==
  (Resolved /\ \A m, n \in DOMAIN call.moves :
                 call.moves[m].snakeId = call.moves[n].snakeId => m = n) =>
    \A f \in Permutations(DOMAIN call.pre.snakes), g \in Permutations(DOMAIN call.moves) :
      LET res == resolve(Permuted(call.pre.snakes, f), call.pre.food,
                         Permuted(call.moves, g), width, height)
      IN  /\ Outcome(res.snakes) = Outcome(snakes)
          /\ Cells(call.pre.food) \ Cells(res.food)
               = Cells(call.pre.food) \ Cells(FoodBeforeSpawn)

\* A turn of three movers: one ate, one ran into the body another projected.
C19_Witness ==
  /\ Resolved
  /\ Len(call.moves) >= 3
  /\ Cells(call.pre.food) # Cells(FoodBeforeSpawn)
  /\ \E i, j \in Agents :
       /\ Mover(i) /\ EliminatedFor(i, "body-collision")
       /\ Mover(j) /\ snakes[j].status = "alive"

\* The turn loop has just handed the gathered moves to nextTurn.
TurnResolved == call.op = "nextTurn" /\ ~isProcessingTurn /\ requests # <<>>

\* nextTurn ran on the results of requests that had all settled, it returned,
\* and of the agents alive before the call exactly those whose request
\* resolved to null were eliminated with reason timeout.
RequestsGathered ==
  TurnResolved =>
    /\ pc = "ready"
    /\ \A i \in DOMAIN requests : Settled(requests[i])
    /\ call.moves = validMoves(requests)
    /\ ~call.pre.isGameOver =>
         \A i \in DOMAIN requests, j \in DOMAIN snakes :
           (snakes[j].id = requests[i].snakeId /\ isAlive(call.pre.snakes[j])) =>
             (requests[i].result = "null"
                <=> (snakes[j].status = "eliminated"
                       /\ snakes[j].eliminationReason = "timeout"))

\* C20: the moves of all alive agents are requested together, nextTurn is
\* called once per turn on the results of requests that have all returned,
\* failed or been aborted, a failed request contributes no move and only its
\* agent times out, and every turn that was started is eventually resolved.
C20_TurnAlwaysResolved ==
  /\ []RequestsGathered
  /\ isProcessingTurn ~> ~isProcessingTurn

\* Agent i's projected head is behind the head of its own projected body.
HitsItself(i) == isPointInList(ProjectedHead(i), Tail(ProjectedBody(i)))

\* Agent i's projected head is behind the head of the projected body of
\* another agent that was alive at the start of the turn and submitted a move.
HitsAnother(i) ==
  \E k \in Agents :
    k # i /\ Mover(k) /\ isPointInList(ProjectedHead(i), Tail(ProjectedBody(k)))

Step4Reasons == {"timeout", "out-of-bounds", "self-collision", "body-collision"}

\* C22: an alive agent with a move whose projected head is inside the board
\* is eliminated with self-collision exactly when that head is a cell of its
\* own projected body other than index 0; otherwise with body-collision
\* exactly when it is a non-head cell of the projected body of another agent
\* that was alive at the start of the turn and moved (eliminated this turn or
\* not); otherwise step 4 eliminates it for no reason at all.
C22_Step4Collisions ==
  Resolved =>
    \A i \in Agents :
      (Mover(i) /\ InsideBoard(ProjectedHead(i))) =>
        /\ EliminatedFor(i, "self-collision") <=> HitsItself(i)
        /\ ~HitsItself(i) => (EliminatedFor(i, "body-collision") <=> HitsAnother(i))
        /\ (~HitsItself(i) /\ ~HitsAnother(i)) =>
             snakes[i].eliminationReason \notin Step4Reasons

\* One agent ran into its own body in the turn in which another ran into the
\* body of an agent that was itself eliminated.
C22_Witness ==
  /\ Resolved
  /\ \E i, j, k \in Agents :
       /\ Mover(i) /\ InsideBoard(ProjectedHead(i)) /\ EliminatedFor(i, "self-collision")
       /\ Mover(j) /\ EliminatedFor(j, "body-collision")
       /\ k # j /\ Mover(k) /\ isPointInList(ProjectedHead(j), Tail(ProjectedBody(k)))
       /\ snakes[k].status = "eliminated"

\* C23 as claimed: an alive agent whose body has two or more cells and whose
\* move takes its head onto its neck, body[1] of the source, is eliminated in
\* that turn.
C23_NeckMoveFatal ==
  Resolved =>
    \A i \in Agents :
      (Mover(i) /\ BodyLen(i) >= 2 /\ ProjectedHead(i) = call.pre.snakes[i].body[2]) =>
        snakes[i].status = "eliminated"

\* The body of agent i before the turn with the head advanced to its
\* projected head and the last cell dropped.
Advanced(i) ==
  <<ProjectedHead(i)>> \o SubSeq(call.pre.snakes[i].body, 1, BodyLen(i) - 1)

\* C24: an agent eliminated in a turn by timeout, out-of-bounds,
\* self-collision, body-collision or head-to-head-collision has the body and
\* the length it had before the turn; an agent eliminated by starvation has
\* its body with the head advanced one cell and the tail dropped, the length
\* it had, and health 0.
C24_BodyCommit ==
  Resolved =>
    \A i \in Agents :
      AliveBefore(i) =>
        /\ EliminatedByCollision(i) =>
             /\ snakes[i].body = call.pre.snakes[i].body
             /\ snakes[i].length = call.pre.snakes[i].length
        /\ EliminatedFor(i, "starvation") =>
             /\ SubmittedMove(i)
             /\ Manhattan(ProjectedHead(i), call.pre.snakes[i].body[1]) = 1
             /\ snakes[i].body = Advanced(i)
             /\ snakes[i].length = call.pre.snakes[i].length
             /\ snakes[i].health = 0

\* One agent starved on the cell it moved to in the turn in which another,
\* grown to two cells, was eliminated where it stood.
C24_Witness ==
  /\ Resolved
  /\ \E i, j \in Agents :
       /\ AliveBefore(i) /\ EliminatedFor(i, "starvation")
       /\ snakes[i].body # call.pre.snakes[i].body
       /\ Mover(j) /\ EliminatedByCollision(j)
       /\ snakes[j].body = call.pre.snakes[j].body

\* Agent i moved and step 4 did not eliminate it.
PassedStep4(i) == Mover(i) /\ snakes[i].eliminationReason \notin Step4Reasons

\* The agents that passed step 4 with agent i's projected head.
Group(i) == {k \in Agents : PassedStep4(k) /\ ProjectedHead(k) = ProjectedHead(i)}

\* C25: among the agents step 4 did not eliminate, in every group of two or
\* more with one projected head every member shorter (by pre-turn body length)
\* than the longest is eliminated with head-to-head-collision, and so are all
\* the longest when two or more tie; at most one member stays alive, and only
\* the unique strictly longest.  An agent alone on its projected head is never
\* given reason head-to-head-collision.
C25_HeadToHeadGroup ==
  Resolved =>
    \A i \in Agents :
      PassedStep4(i) =>
        IF Cardinality(Group(i)) >= 2
        THEN /\ (\E k \in Group(i) : BodyLen(k) > BodyLen(i)) =>
                  EliminatedFor(i, "head-to-head-collision")
             /\ (\E k \in Group(i) \ {i} : BodyLen(k) = BodyLen(i)) =>
                  EliminatedFor(i, "head-to-head-collision")
             /\ Cardinality({k \in Group(i) : snakes[k].status = "alive"}) <= 1
             /\ snakes[i].status = "alive" =>
                  \A k \in Group(i) \ {i} : BodyLen(k) < BodyLen(i)
        ELSE ~EliminatedFor(i, "head-to-head-collision")

\* Three agents moved onto one cell: the longest stayed alive and the other
\* two were eliminated.
C25_Witness ==
  /\ Resolved
  /\ \E i \in Agents :
       /\ PassedStep4(i)
       /\ Cardinality(Group(i)) >= 3
       /\ snakes[i].status = "alive"
       /\ \A k \in Group(i) \ {i} : EliminatedFor(k, "head-to-head-collision")

\* Agent i moved and neither step 4 nor step 5 eliminated it.
PassedCollisions(i) == Mover(i) /\ snakes[i].eliminationReason \notin CollisionReasons

\* Some agent that steps 4 and 5 did not eliminate has its projected head on p.
Eaten(p) == \E i \in Agents : PassedCollisions(i) /\ ProjectedHead(i) = p

\* The food of the start of the turn without the items that were eaten.
Uneaten == SelectSeq(call.pre.food, LAMBDA f : ~Eaten(f))

\* C26: in a resolved turn a food item of the start of the turn is removed
\* exactly when an agent not eliminated by steps 4 and 5 has its projected
\* head on its cell, and then once: the items left are the first items of the
\* food list after the turn, in their order.  Food reached only by agents
\* eliminated by a collision stays, and who eats (and grows) is decided on the
\* food list of the start of the turn.
C26_FoodConsumption ==
  Resolved =>
    /\ IsPrefix(Uneaten, food)
    /\ \A k \in (Len(Uneaten) + 1)..Len(food) : ~isPointInList(food[k], Uneaten)
    /\ Len(call.pre.food) - Len(Uneaten)
         = Cardinality({p \in Cells(call.pre.food) : Eaten(p)})
    /\ \A i \in Agents :
         PassedCollisions(i) =>
           (snakes[i].length = call.pre.snakes[i].length + 1 <=> LandsOnFood(i))

\* Two agents met head to head on a food item and were eliminated: the item
\* is still there.
C26_Witness ==
  /\ Resolved
  /\ \E k \in DOMAIN call.pre.food, i \in Agents :
       /\ Mover(i) /\ EliminatedByCollision(i)
       /\ ProjectedHead(i) = call.pre.food[k]
       /\ ~Eaten(call.pre.food[k])
       /\ food[k] = call.pre.food[k]

\* initializeGame has just returned.
Initialized == call.op = "initializeGame" /\ pc = "ready"

\* Corner i mod 4 of [(1,1), (w-2,1), (1,h-2), (w-2,h-2)], i from 0.
Corner(i) ==
  [x |-> IF i % 2 = 0 THEN 1 ELSE width - 2,
   y |-> IF (i % 4) < 2 THEN 1 ELSE height - 2]

\* C27: after initializeGame(players) turn is 0 and isGameOver is false;
\* player i (from 0) has the one-cell body at corner i mod 4, health
\* initialHealth, status alive, length 1 and an empty latency history; with
\* at most 4 players on a board with w, h >= 4 all start cells are distinct;
\* the food list holds minFood or minFood + 1 items, none on a start cell and
\* no two on one cell.
C27_InitializeGame ==
  Initialized =>
    /\ turn = 0 /\ ~isGameOver
    /\ Len(snakes) = Len(call.arg)
    /\ \A i \in DOMAIN snakes :
         /\ snakes[i].id = call.arg[i].id
         /\ snakes[i].body = <<Corner(i - 1)>>
         /\ snakes[i].health = config.initialHealth
         /\ snakes[i].status = "alive"
         /\ snakes[i].length = 1
         /\ snakes[i].latency = <<>>
    /\ (Len(snakes) <= 4 /\ width >= 4 /\ height >= 4) =>
         \A i, j \in DOMAIN snakes : i # j => snakes[i].body # snakes[j].body
    /\ Len(food) \in {config.minFood, config.minFood + 1}
    /\ \A k \in DOMAIN food :
         /\ \A i \in DOMAIN snakes : food[k] # snakes[i].body[1]
         /\ \A m \in DOMAIN food : food[m] = food[k] => m = k

\* Four players on a 4 x 4 board, with the extra food item spawned.
C27_Witness ==
  /\ Initialized
  /\ Len(snakes) = 4 /\ width >= 4 /\ height >= 4
  /\ Len(food) = config.minFood + 1

\* The agents of the game were placed on start cells that are all different.
DistinctStarts == \A i, j \in DOMAIN snakes : i # j => Corner(i - 1) # Corner(j - 1)

\* C28: in a game begun on distinct start cells, in every reachable state the
\* body cells of alive agents are inside the board and pairwise distinct,
\* within one agent's body and across alive agents.
C28_AliveBodiesDisjoint ==
  DistinctStarts =>
    \A i, j \in AliveNow :
      \A a \in DOMAIN snakes[i].body, b \in DOMAIN snakes[j].body :
        /\ InsideBoard(snakes[i].body[a])
        /\ snakes[i].body[a] = snakes[j].body[b] => (i = j /\ a = b)

\* An agent grown to two cells or more moved, and another moved onto the cell
\* its tail left; both are alive.
C28_Witness ==
  /\ Resolved /\ DistinctStarts
  /\ \E i, j \in AliveNow :
       /\ i # j /\ Mover(i) /\ Mover(j)
       /\ BodyLen(j) >= 2
       /\ ProjectedHead(i) = call.pre.snakes[j].body[BodyLen(j)]

\* C29: in every reachable state the length score of every agent, alive or
\* eliminated, is the number of cells of its body, and no turn decreases it.
C29_LengthIsBodyLength ==
  /\ \A i \in DOMAIN snakes : snakes[i].length = Len(snakes[i].body)
  /\ call.op = "nextTurn" =>
       \A i \in Agents : snakes[i].length >= call.pre.snakes[i].length

\* An agent grew in the turn in which a grown agent was eliminated.
C29_Witness ==
  /\ Resolved
  /\ \E i, j \in Agents :
       /\ snakes[i].status = "alive"
       /\ snakes[i].length = call.pre.snakes[i].length + 1
       /\ AliveBefore(j) /\ snakes[j].status = "eliminated"
       /\ snakes[j].length >= 2

\* C30: in every reachable state every food item is inside the board, no two
\* food items are on one cell, and no food item is on a cell of an alive
\* agent's body.
C30_FoodCells ==
  \A k \in DOMAIN food :
    /\ InsideBoard(food[k])
    /\ \A m \in DOMAIN food : food[m] = food[k] => m = k
    /\ ~InAliveBody(food[k])

\* An agent ate: its head is where a food item was, and the food list, filled
\* up again, has an item on a cell of an eliminated agent's body.
C30_Witness ==
  /\ Resolved
  /\ \E i \in AliveNow : Mover(i) /\ LandsOnFood(i)
  /\ \E k \in DOMAIN food : InEliminatedBody(food[k])

\* A game state without the model names of its snakes.
WithoutModels(st) ==
  [st EXCEPT !.snakes = [i \in DOMAIN @ |-> [@[i] EXCEPT !.model = Undefined]]]

\* The ids of the snakes alive in a list of snakes, in order.
AliveIds(S) == [i \in DOMAIN aliveSnakes(S) |-> aliveSnakes(S)[i].id]

C31_EveryGameEnds == <>isGameOver

\* The report of the game on the current engine: the last POST body.
Report == posted[Len(posted)]

====
